---- MODULE Spec2Model ----
(***************************************************************************)
(* ApiKeyInput (src/src/components/ApiKeyInput.tsx): a React component     *)
(* that reads an API key from the environment or from localStorage, hands  *)
(* it to initializeOpenAI and reflects the outcome in its state.           *)
(*                                                                         *)
(* Strings the user can type or that can be stored are sequences of        *)
(* characters, so that String.prototype.trim is computed, not assumed.     *)
(* A value that may be absent (null / undefined) is a sequence of at most  *)
(* one element: None is <<>>, Some(v) is <<v>>.                            *)
(*                                                                         *)
(* initializeOpenAI is an external function (imported at line 3): each     *)
(* call either returns or throws, chosen nondeterministically per call.    *)
(* Every event handler runs to completion before the next event (React     *)
(* event callbacks on a single thread), so each handler is one action.     *)
(***************************************************************************)
EXTENDS Integers, Sequences, FiniteSets, TLC

\* ------------------------------------------------------------------ bounds
\* longest text typed into the field or found in the storage slot
MaxLen == 2
\* longest text configured in an environment variable
MaxEnvLen == 1

Chars == {"a", " "}

Str(n) == UNION {[1..k -> Chars] : k \in 0..n}

None == <<>>

Some(v) == <<v>>

Opt(S) == {None} \cup {Some(v) : v \in S}

\* ------------------------------------------------------- JavaScript helpers
RECURSIVE TrimStart(_)
TrimStart(s) == IF s # <<>> /\ Head(s) = " " THEN TrimStart(Tail(s)) ELSE s

RECURSIVE TrimEnd(_)
TrimEnd(s) ==
    IF s # <<>> /\ s[Len(s)] = " " THEN TrimEnd(SubSeq(s, 1, Len(s) - 1)) ELSE s

\* String.prototype.trim
Trim(s) == TrimEnd(TrimStart(s))

\* truthiness of an optional string: undefined, null and '' are falsy
Truthy(o) == o # None /\ o[1] # <<>>

\* a || b
JsOr(a, b) == IF Truthy(a) THEN a ELSE b

\* ------------------------------------------------------------ localStorage
\* the slot API_KEY_STORAGE_KEY of localStorage, as an optional string
getItem(slot) == slot

setItem(slot, v) == Some(v)

removeItem_noop(slot) == slot

removeItem(slot) == None

\* ------------------------------------------------------- initializeOpenAI
\* what one call of initializeOpenAI does: return, throw an Error carrying a
\* message, or throw a value that is not an Error
Returned == [kind |-> "return", text |-> ""]

Thrown == {[kind |-> "Error", text |-> "invalid key"],
           [kind |-> "string", text |-> "boom"]}

Outcomes == {Returned} \cup Thrown

\* String(err): an Error prints as "Error: <message>", a string as itself
StringOf(err) == IF err.kind = "Error" THEN "Error: " \o err.text ELSE err.text

\* err instanceof Error ? err.message : String(err)
ErrText_stringForm(err) == StringOf(err)

ErrText(err) == IF err.kind = "Error" THEN err.text ELSE StringOf(err)

\* ------------------------------------------------------------ error texts
MsgStartup == "Failed to initialize with API key"

MsgRequired == "API key is required"

MsgSubmit(err) == "Failed to initialize OpenAI: " \o ErrText(err)

\* ------------------------------------------------------------------- state
VARIABLES
    mounted,        \* the component instance exists
    apiKey,         \* useState(''): the text of the input field
    error,          \* useState(null): the error text, or None
    isInitialized,  \* useState(false)
    localStorage,   \* the slot 'openai_api_key', or None
    metaEnv,        \* import.meta.env.VITE_OPENAI_API_KEY
    procEnv,        \* window.process?.env?.VITE_OPENAI_API_KEY
    lastNotified,   \* the last argument of onApiKeySet (FALSE before any call)
    \* observation of the last event handled
    lastEvent,      \* which handler ran last
    resetPending,   \* a reset ran and only an unmount, if anything, since
    afterReset,     \* the last handler was the effect, first since a reset
    initCalls,      \* the calls of initializeOpenAI made by the last handler
    notifications,  \* the arguments passed to onApiKeySet by the last handler
    storageReads,   \* the number of getItem calls made by the last handler
    thrown,         \* the value the last handler caught, or None
    \* observation of the instance's history
    lastInit,       \* the most recent call of initializeOpenAI, or None
    lastSubmit,     \* how the most recent submit of this instance ended
    startupFailed,  \* a call of the effect failed since the last submit/mount
    startupCalls,   \* calls made by the effect in this instance: none, once, repeated
    instNotified    \* the last argument this instance passed to onApiKeySet

vars == <<mounted, apiKey, error, isInitialized, localStorage, metaEnv, procEnv,
          lastNotified, lastEvent, resetPending, afterReset, initCalls, notifications,
          storageReads, thrown, lastInit, lastSubmit, startupFailed,
          startupCalls, instNotified>>

\* the state a handler reads and writes
Component == [apiKey |-> apiKey, error |-> error,
              isInitialized |-> isInitialized, localStorage |-> localStorage]

\* useState initial values (lines 12-14), with the storage slot as it is
Fresh == [apiKey |-> <<>>, error |-> None,
          isInitialized |-> FALSE, localStorage |-> localStorage]

\* the effects of a handler besides its state: calls made and slot reads
Quiet(s) == [apiKey |-> s.apiKey, error |-> s.error,
             isInitialized |-> s.isInitialized, localStorage |-> s.localStorage,
             initCalls |-> <<>>, notifications |-> <<>>, storageReads |-> 0,
             thrown |-> None]

Call(k, r) == [key |-> k, ok |-> (r = Returned)]

\* ---------------------------------------------------------------- handlers
\* line 25: const keyToUse = envApiKey || savedApiKey
KeyToUse_savedFirst(envApiKey, savedApiKey) == JsOr(savedApiKey, envApiKey)

KeyToUse(envApiKey, savedApiKey) == JsOr(envApiKey, savedApiKey)

\* lines 35-38: the slot is removed only if the key did not come from the env
RemoveIfNotEnv_always(envApiKey, slot) == removeItem(slot)

RemoveIfNotEnv_never(envApiKey, slot) == slot

RemoveIfNotEnv(envApiKey, slot) ==
    IF ~Truthy(envApiKey) THEN removeItem(slot) ELSE slot

\* line 19: import.meta.env.VITE_OPENAI_API_KEY ||
\*          (window as any).process?.env?.VITE_OPENAI_API_KEY
EnvApiKey(env1, env2) == JsOr(env1, env2)

\* lines 17-41: the body of the effect, run on state s with the call of
\* initializeOpenAI (if one is made) ending as r
useEffect(s, env1, env2, r) ==
    LET envApiKey == EnvApiKey(env1, env2)
        savedApiKey == getItem(s.localStorage)
        keyToUse == KeyToUse(envApiKey, savedApiKey)
    IN  IF Truthy(keyToUse)
        THEN IF r = Returned
             THEN [apiKey |-> keyToUse[1],
                   error |-> s.error,
                   isInitialized |-> TRUE,
                   localStorage |-> s.localStorage,
                   initCalls |-> <<Call(keyToUse[1], r)>>,
                   notifications |-> <<TRUE>>,
                   storageReads |-> 1,
                   thrown |-> None]
             ELSE [apiKey |-> s.apiKey,
                   error |-> Some(MsgStartup),
                   isInitialized |-> s.isInitialized,
                   localStorage |-> RemoveIfNotEnv(envApiKey, s.localStorage),
                   initCalls |-> <<Call(keyToUse[1], r)>>,
                   notifications |-> <<>>,
                   storageReads |-> 1,
                   thrown |-> Some(r)]
        ELSE [Quiet(s) EXCEPT !.storageReads = 1]

\* line 45: setError(null)
ClearError_kept(e) == e

ClearError(e) == None

\* line 47: !apiKey.trim()
IsBlank_untrimmed(k) == k = <<>>

IsBlank(k) == Trim(k) = <<>>

\* lines 53-54: the credential passed on and stored is apiKey.trim()
Credential_untrimmed(k) == k

Credential(k) == Trim(k)

\* lines 43-60
handleSubmit(s, r) ==
    LET e0 == ClearError(s.error)
    IN  IF IsBlank(s.apiKey)
        THEN [Quiet(s) EXCEPT !.error = Some(MsgRequired)]
        ELSE IF r = Returned
             THEN [apiKey |-> s.apiKey,
                   error |-> e0,
                   isInitialized |-> TRUE,
                   localStorage |-> setItem(s.localStorage, Credential(s.apiKey)),
                   initCalls |-> <<Call(Credential(s.apiKey), r)>>,
                   notifications |-> <<TRUE>>,
                   storageReads |-> 0,
                   thrown |-> None]
             ELSE [apiKey |-> s.apiKey,
                   error |-> Some(MsgSubmit(r)),
                   isInitialized |-> s.isInitialized,
                   localStorage |-> s.localStorage,
                   initCalls |-> <<Call(Credential(s.apiKey), r)>>,
                   notifications |-> <<>>,
                   storageReads |-> 0,
                   thrown |-> Some(r)]

\* lines 62-67
handleReset_toggle(s) ==
    [apiKey |-> <<>>,
     error |-> s.error,
     isInitialized |-> ~s.isInitialized,
     localStorage |-> removeItem(s.localStorage),
     initCalls |-> <<>>,
     notifications |-> <<FALSE>>,
     storageReads |-> 0,
     thrown |-> None]

handleReset_silent(s) ==
    [apiKey |-> <<>>,
     error |-> s.error,
     isInitialized |-> FALSE,
     localStorage |-> removeItem(s.localStorage),
     initCalls |-> <<>>,
     notifications |-> <<>>,
     storageReads |-> 0,
     thrown |-> None]

handleReset(s) ==
    [apiKey |-> <<>>,
     error |-> s.error,
     isInitialized |-> FALSE,
     localStorage |-> removeItem(s.localStorage),
     initCalls |-> <<>>,
     notifications |-> <<FALSE>>,
     storageReads |-> 0,
     thrown |-> None]

\* line 98: onChange={(e) => setApiKey(e.target.value)}
onChange(s, v) == [Quiet(s) EXCEPT !.apiKey = v]

\* ----------------------------------------------------------------- actions
\* the state after a handler that ended as res
Commit(res, ev) ==
    /\ apiKey' = res.apiKey
    /\ error' = res.error
    /\ isInitialized' = res.isInitialized
    /\ localStorage' = res.localStorage
    /\ initCalls' = res.initCalls
    /\ notifications' = res.notifications
    /\ storageReads' = res.storageReads
    /\ thrown' = res.thrown
    /\ instNotified' = IF ev \in {"mount", "unmount"} /\ res.notifications = <<>>
                       THEN FALSE
                       ELSE IF res.notifications = <<>> THEN instNotified
                       ELSE res.notifications[Len(res.notifications)]
    /\ lastNotified' = IF res.notifications = <<>> THEN lastNotified
                       ELSE res.notifications[Len(res.notifications)]
    /\ lastInit' = IF res.initCalls = <<>> THEN lastInit
                   ELSE Some(res.initCalls[Len(res.initCalls)])
    /\ resetPending' = (ev = "reset" \/ (ev = "unmount" /\ resetPending))
    /\ afterReset' = (ev \in {"mount", "effect"} /\ resetPending)
    /\ lastEvent' = ev
    /\ UNCHANGED <<metaEnv, procEnv>>

Failed(res) == res.initCalls # <<>> /\ ~res.initCalls[1].ok

Init ==
    /\ mounted = FALSE
    /\ apiKey = <<>>
    /\ error = None
    /\ isInitialized = FALSE
    /\ localStorage \in Opt(Str(MaxLen))
    /\ metaEnv \in Opt(Str(MaxEnvLen))
    \* a || b evaluates b only if a is falsy (line 19): with a truthy first
    \* source the second is never read, so one value stands for all of them
    /\ procEnv \in IF Truthy(metaEnv) THEN {None} ELSE Opt(Str(MaxEnvLen))
    /\ lastNotified = FALSE
    /\ lastEvent = "none"
    /\ resetPending = FALSE
    /\ afterReset = FALSE
    /\ initCalls = <<>>
    /\ notifications = <<>>
    /\ storageReads = 0
    /\ lastInit = None
    /\ lastSubmit = "none"
    /\ startupFailed = FALSE
    /\ startupCalls = "none"
    /\ instNotified = FALSE
    /\ thrown = None

\* the component is rendered for the first time: state is created with its
\* initial values (lines 12-14) and the effect runs (line 17)
Mount ==
    /\ ~mounted
    /\ \E r \in Outcomes :
          LET res == useEffect(Fresh, metaEnv, procEnv, r)
          IN  /\ Commit(res, "mount")
              /\ startupFailed' = Failed(res)
              /\ startupCalls' = IF res.initCalls = <<>> THEN "none" ELSE "once"
    /\ mounted' = TRUE
    /\ lastSubmit' = "none"

\* the parent renders again with another onApiKeySet: the dependency of the
\* effect changed (line 41), so the effect runs again on the current state
CallbackChanged ==
    /\ mounted
    /\ \E r \in Outcomes :
          LET res == useEffect(Component, metaEnv, procEnv, r)
          IN  /\ Commit(res, "effect")
              /\ startupFailed' = (startupFailed \/ Failed(res))
              /\ startupCalls' = IF res.initCalls = <<>> THEN startupCalls
                                 ELSE IF startupCalls = "none" THEN "once"
                                 ELSE "repeated"
    /\ UNCHANGED <<mounted, lastSubmit>>

\* the component is removed: its state is gone, the storage slot stays
Unmount ==
    /\ mounted
    /\ Commit(Quiet(Fresh), "unmount")
    /\ mounted' = FALSE
    /\ UNCHANGED <<lastSubmit, startupFailed, startupCalls>>

\* the field is rendered only while not initialized (lines 78, 93-105)
Change ==
    /\ mounted /\ ~isInitialized
    /\ \E v \in Str(MaxLen) :
          /\ v # apiKey
          /\ Commit(onChange(Component, v), "change")
    /\ UNCHANGED <<mounted, lastSubmit, startupFailed, startupCalls>>

\* a submit event of the form, rendered only while not initialized (line 93)
Submit ==
    /\ mounted /\ ~isInitialized
    /\ \E r \in Outcomes :
          LET res == handleSubmit(Component, r)
          IN  /\ Commit(res, "submit")
              /\ lastSubmit' = IF res.initCalls = <<>> THEN "missing"
                                ELSE IF Failed(res) THEN "failed" ELSE "ok"
    /\ startupFailed' = FALSE
    /\ UNCHANGED <<mounted, startupCalls>>

\* a click on the reset button, rendered only while initialized (lines 78-90)
Reset ==
    /\ mounted /\ isInitialized
    /\ Commit(handleReset(Component), "reset")
    /\ UNCHANGED <<mounted, lastSubmit, startupFailed, startupCalls>>

Next == Mount \/ CallbackChanged \/ Unmount \/ Change \/ Submit \/ Reset

Spec == Init /\ [][Next]_vars

TypeOK ==
    /\ mounted \in BOOLEAN
    /\ apiKey \in Str(MaxLen)
    /\ error \in Opt({MsgStartup, MsgRequired} \cup {MsgSubmit(e) : e \in Thrown})
    /\ isInitialized \in BOOLEAN
    /\ localStorage \in Opt(Str(MaxLen))
    /\ lastNotified \in BOOLEAN

\* ------------------------------------------------------------------ claims
\* what the last handler did
Startup == lastEvent \in {"mount", "effect"}

Called == initCalls # <<>>

Succeeded == Called /\ initCalls[1].ok

\* the environment credential E, and whether one is configured
E == EnvApiKey(metaEnv, procEnv)

HasEnv == Truthy(E)

\* C1: a submit whose call of initializeOpenAI succeeded ends initialized,
\* the call was made with the trimmed input value and the slot holds it.
C1_SubmitSucceeds ==
    (lastEvent = "submit" /\ Succeeded) =>
        /\ isInitialized
        /\ apiKey # <<>>
        /\ initCalls[1].key = Trim(apiKey)
        /\ localStorage = Some(Trim(apiKey))

C1_Witness ==
    /\ lastEvent = "submit" /\ Succeeded
    /\ apiKey # Trim(apiKey)
    /\ localStorage = Some(Trim(apiKey))

\* C2: a submit of an empty or all-whitespace input value ends with the
\* error "API key is required" and makes no call of initializeOpenAI.
C2_BlankSubmitRejected ==
    (lastEvent = "submit" /\ Trim(apiKey) = <<>>) =>
        /\ error = Some(MsgRequired)
        /\ ~Called

C2_Witness ==
    /\ lastEvent = "submit"
    /\ apiKey # <<>> /\ Trim(apiKey) = <<>>
    /\ error = Some(MsgRequired)
    /\ Truthy(localStorage)

\* C3: a reset ends not initialized, with an empty input value, the slot
\* absent and the parent callback invoked with false.
C3_ResetClears ==
    lastEvent = "reset" =>
        /\ ~isInitialized
        /\ apiKey = <<>>
        /\ localStorage = None
        /\ notifications = <<FALSE>>

C3_Witness ==
    /\ lastEvent = "reset"
    /\ lastSubmit = "ok"
    /\ ~isInitialized /\ localStorage = None

\* C4: isInitialized holds only if the most recent call of initializeOpenAI
\* succeeded (no failed call since) and was made with the current credential.
\* The credential is matched in either form the handlers pass it: the input
\* value as the effect set it (lines 29-30) or its trim (line 53). A reset
\* clears isInitialized, so "no reset since" needs no separate conjunct.
C4_InitializedOnlyAfterSuccess ==
    isInitialized =>
        /\ lastInit # None
        /\ lastInit[1].ok
        /\ lastInit[1].key \in {apiKey, Trim(apiKey)}

\* C5 as stated: an error text is recorded only if the most recent call of
\* initializeOpenAI failed.
C5_ErrorOnlyAfterFailedCall ==
    error # None => (lastInit # None /\ ~lastInit[1].ok)

\* C5 as amended: an error text is recorded only if the most recent submit
\* of this instance was rejected as blank or its call failed, or a call made
\* by the effect has failed since that submit (since mount, if none); each
\* text names its cause. A later successful call of the effect does not
\* clear it.
C5_ErrorHasCause ==
    /\ error = Some(MsgRequired) => lastSubmit = "missing"
    /\ error = Some(MsgStartup) => startupFailed
    /\ error \notin {None, Some(MsgRequired), Some(MsgStartup)} =>
           lastSubmit = "failed"
    /\ (lastInit = None /\ lastSubmit = "none") => error = None

C5_Witness ==
    /\ error = Some(MsgRequired)
    /\ isInitialized
    /\ lastInit # None /\ lastInit[1].ok

\* C6 as stated: startup with an environment credential that initializes
\* ends initialized from it, the stored value unused and the slot not read.
C6_EnvWithoutStorageRead ==
    (Startup /\ HasEnv /\ Succeeded) =>
        /\ isInitialized
        /\ initCalls = <<[key |-> E[1], ok |-> TRUE]>>
        /\ apiKey = E[1]
        /\ storageReads = 0

\* C6 as amended: the slot is read once at every startup (line 22), but with
\* an environment credential that initializes the value read is not used.
C6_EnvPreferred ==
    /\ Startup => storageReads = 1
    /\ (Startup /\ HasEnv /\ Succeeded) =>
           /\ isInitialized
           /\ initCalls = <<[key |-> E[1], ok |-> TRUE]>>
           /\ apiKey = E[1]

C6_Witness ==
    /\ lastEvent = "mount" /\ HasEnv /\ Succeeded
    /\ Truthy(localStorage) /\ localStorage # E
    /\ apiKey = E[1] /\ storageReads = 1

\* C7: no handler changes the environment credential, and the first startup
\* after a reset (with or without an unmount in between) whose call succeeds
\* for the environment credential ends initialized from it, the slot absent.
C7_EnvSurvivesReset ==
    [][/\ E' = E
       /\ (afterReset' /\ HasEnv' /\ Succeeded') =>
              /\ isInitialized'
              /\ apiKey' = E[1]
              /\ initCalls'[1].key = E[1]
              /\ localStorage' = None]_vars

C7_Witness ==
    /\ afterReset /\ lastEvent = "mount" /\ HasEnv /\ Succeeded
    /\ isInitialized /\ apiKey = E[1] /\ localStorage = None

\* C8: a mount without environment credential whose call fails for the
\* stored credential ends with the slot absent, not initialized and the
\* fixed startup error text.
C8_StoredKeyFails ==
    (lastEvent = "mount" /\ ~HasEnv /\ Called /\ ~Succeeded) =>
        /\ localStorage = None
        /\ ~isInitialized
        /\ error = Some(MsgStartup)

C8_Witness ==
    /\ lastEvent = "mount" /\ ~HasEnv /\ Called /\ ~Succeeded
    /\ localStorage = None /\ error = Some(MsgStartup)

\* C9: a startup whose call fails for an environment credential leaves the
\* slot exactly as it was.
C9_EnvFailureKeepsStorage ==
    [][(lastEvent' \in {"mount", "effect"} /\ HasEnv /\ Called' /\ ~Succeeded')
          => localStorage' = localStorage]_vars

C9_Witness ==
    /\ lastEvent = "mount" /\ HasEnv /\ Called /\ ~Succeeded
    /\ Truthy(localStorage)

\* no credential in the environment or in the slot
NoKeyFound == ~Truthy(KeyToUse(E, getItem(localStorage)))

\* C10 as stated: the callback gets true exactly when a call succeeded, and
\* false on every reset and on a mount that finds no credential.
C10_NotifiedAlsoWhenNoKey ==
    /\ (notifications = <<TRUE>>) <=> Succeeded
    /\ lastEvent = "reset" => notifications = <<FALSE>>
    /\ (lastEvent = "mount" /\ NoKeyFound) => notifications = <<FALSE>>

\* C10 as amended: the callback gets true exactly when a call succeeded and
\* false exactly on a reset; a mount that finds no credential, like every
\* failure, does not invoke it.
C10_ParentNotified ==
    /\ (notifications = <<TRUE>>) <=> Succeeded
    /\ (notifications = <<FALSE>>) <=> (lastEvent = "reset")
    /\ notifications \in {<<>>, <<TRUE>>, <<FALSE>>}
    /\ (lastEvent = "mount" /\ NoKeyFound) => notifications = <<>>

C10_Witness ==
    /\ lastEvent = "mount" /\ NoKeyFound
    /\ notifications = <<>> /\ ~isInitialized

\* C11: a submit whose call of initializeOpenAI throws leaves the slot as it
\* was, does not invoke the callback, stays not initialized and records the
\* text "Failed to initialize OpenAI: " followed by the description of what
\* was thrown (the message of an Error, the string form of anything else).
C11_FailedSubmitPersistsNothing ==
    [][(lastEvent' = "submit" /\ Called' /\ ~Succeeded') =>
          /\ localStorage' = localStorage
          /\ notifications' = <<>>
          /\ ~isInitialized'
          /\ thrown' # None
          /\ error' = Some("Failed to initialize OpenAI: " \o thrown'[1].text)]_vars

C11_Witness ==
    /\ lastEvent = "submit" /\ Called /\ ~Succeeded
    /\ Truthy(localStorage)
    /\ thrown # None /\ thrown[1].kind = "Error"
    /\ error = Some("Failed to initialize OpenAI: invalid key")

\* what an observer sees of a handler's result, the parent having last been
\* told prev
Observed(res, prev) ==
    [isInitialized |-> res.isInitialized,
     apiKey |-> res.apiKey,
     error |-> res.error,
     localStorage |-> res.localStorage,
     notified |-> IF res.notifications = <<>> THEN prev
                  ELSE res.notifications[Len(res.notifications)]]

\* the component state a handler result leaves behind
StateOf(res) ==
    [apiKey |-> res.apiKey, error |-> res.error,
     isInitialized |-> res.isInitialized, localStorage |-> res.localStorage]

ResetOnce == Observed(handleReset(Component), lastNotified)

ResetTwice ==
    Observed(handleReset(StateOf(handleReset(Component))), ResetOnce.notified)

\* C12: in every reachable state, running handleReset twice leaves the same
\* isInitialized, input value, error, slot and last notified value as
\* running it once.
C12_ResetIdempotent == ResetTwice = ResetOnce

C12_Witness ==
    /\ lastEvent = "reset"
    /\ error # None
    /\ ResetOnce = Observed(Quiet(Component), lastNotified)
    /\ ResetTwice = ResetOnce

\* C13: within one mounted instance the effect calls initializeOpenAI at
\* most once, and every call is made by the effect or by a submit.
C13_StartupCallsOnce ==
    /\ startupCalls # "repeated"
    /\ Called => lastEvent \in {"mount", "effect", "submit"}

\* C14: a handler whose call of initializeOpenAI failed ends not initialized
\* with an error text recorded.
C14_FailureMeansUnset ==
    (Called /\ ~Succeeded) => (~isInitialized /\ error # None)

\* the last handler ended in a MissingInput or InitializationFailure error
ErrorRaised ==
    \/ lastEvent = "submit" /\ ~Succeeded
    \/ Startup /\ Called /\ ~Succeeded

\* C15: a handler that ends in an error leaves the form shown (not
\* initialized), and a submit made while an error is recorded whose call
\* succeeds ends initialized with the error cleared.
C15_FormUsableAfterFailure ==
    [][/\ ErrorRaised' => ~isInitialized'
       /\ (error # None /\ lastEvent' = "submit" /\ Succeeded') =>
              (isInitialized' /\ error' = None)]_vars

\* C16: a step that puts a new value into the slot is a submit whose call
\* succeeded for exactly that value, which is non-empty and trimmed; the
\* effect leaves the slot as it was or removes it.
C16_SlotWrittenOnlyBySubmit ==
    [][/\ (localStorage' # localStorage /\ localStorage' # None) =>
              /\ lastEvent' = "submit" /\ Succeeded'
              /\ localStorage' = Some(initCalls'[1].key)
              /\ initCalls'[1].key # <<>>
              /\ Trim(initCalls'[1].key) = initCalls'[1].key
       /\ lastEvent' \in {"mount", "effect"} =>
              localStorage' \in {localStorage, None}]_vars

C16_Witness ==
    /\ lastEvent = "submit" /\ Succeeded
    /\ HasEnv /\ localStorage # E
    /\ localStorage = Some(initCalls[1].key)

\* C17: isInitialized and a recorded error never hold together.
C17_NoErrorWhileInitialized == ~(isInitialized /\ error # None)

\* C18 as stated: while the component is mounted, the last value passed to
\* the parent callback (FALSE before any call) equals isInitialized.
C18_ParentAgrees == mounted => lastNotified = isInitialized

\* C18 as amended: the last value this mounted instance passed to the
\* callback (FALSE before its first call) equals isInitialized.
C18_InstanceAgrees == instNotified = isInitialized

C18_Witness ==
    /\ mounted /\ lastEvent = "mount"
    /\ lastNotified # isInitialized
    /\ instNotified = isInitialized
====
